---- MODULE Spec2Model ----
(***************************************************************************)
(* Model of the 7ma-backend presentation service.                          *)
(*                                                                         *)
(*   Spec      the job orchestrator: POST /api/presentation (app.py) and   *)
(*             the worker thread running run_full_pipeline (pipeline.py).  *)
(*   SpecPoll  the same with GET /api/presentation/<id> (app.py) polling   *)
(*             the job table while the requests run.                       *)
(*   SpecDir   the orchestrator with requests whose bodies differ, seen by  *)
(*             the folders the runs work in.                               *)
(*   SpecUpd   update_slides (slide_updater.py) run repeatedly against one *)
(*             document with one audio directory.                          *)
(*   SpecGen   ContentPipeline.run_pipeline (content_generator.py) run     *)
(*             repeatedly for one output folder.                           *)
(*   SpecWrite OutputPaths.write_json_if_changed called repeatedly.        *)
(*   SpecCopy  update_slides with and without create_new_presentation,     *)
(*             seen by the presentation ids its requests are sent to.      *)
(*   SpecFn    resolve_positions, resolve_content and the field mapper of  *)
(*             update_slide_text_fields called on bounded arguments.       *)
(*                                                                         *)
(* A thread is a position (pc) and its locals.  A `with lock:` block is    *)
(* an acquire step, one step per statement of the block, and the release   *)
(* joined to the last statement.  Steps of a thread that touch no shared   *)
(* state are joined to the neighbouring step of the same thread.           *)
(***************************************************************************)
EXTENDS Integers, Sequences, FiniteSets, TLC

\* ------------------------------------------------------------------ bounds
MaxReqs  == 2           \* HTTP submissions handled in one behaviour
MaxIds   == 2           \* distinct values uuid4().hex[:8] takes
PollReqs == 1           \* submissions handled while the table is polled
MaxRuns  == 2           \* update_slides calls in one behaviour
NumSlides == 3          \* slides of the longest target document
MaxGenRuns == 2         \* run_pipeline calls for one output folder
MaxCalls == 3           \* write_json_if_changed calls in one behaviour
MaxSpecs == 3           \* items of a slide_map passed to resolve_positions
MaxBoxes == 2           \* text boxes of a slide passed to the field mapper
MaxRecords == 2         \* records of a collection passed to resolve_content

Reqs   == 1..MaxReqs

\* ------------------------------------------------------------ input values
None        == "None"
EmailSeq    == <<"ann", "bob">>       \* data.get("email"), truthy values
NoEmail     == ""                     \* missing or empty email
\* bodies of requests: data.get("name") and data.get("folder_path")
PayloadSeq  == << [name |-> "Ann Lee", folder_path |-> None],
                 [name |-> "ann-lee", folder_path |-> None],
                 [name |-> "Bob",     folder_path |-> "Ann Lee"] >>

VARIABLES
    pipeline_locks,   \* app.py:7, the keys of the dict (every value is True)
    pipeline_lock,    \* app.py:8, owner of the lock, 0 = free
    jobs_lock,        \* services.jobs.jobs_lock, owner, 0 = free
    jobs,             \* services.jobs.jobs, request_id -> job dict
    pc,               \* position of each request handler / worker thread
    req,              \* per request: email, request_id, presentation_id of the payload
    presentation_id,  \* pipeline.py:71 local
    slides_url,       \* pipeline.py:83 local
    wemail,           \* pipeline.py:101 local
    exc,              \* str(e) of the exception caught at pipeline.py:128
    target,           \* per run: the document id its batchUpdates were sent to
    env,              \* PRESENTATION_ID and RESULT_DELIVERY_MODE of the process
    payload,          \* per request: name and folder_path of the body it carries
    base_path,        \* per run: OutputPaths.base_path of its run_pipeline call
    output_dir,       \* pipeline.py:44 local
    ppc, pref, pjob, pst, presp,  \* get_status: position, request_id, job, status read, response
    slides,           \* the target document: per slide its text boxes and video elements
    drive,            \* Drive: number of files created under each audio filename
    files,            \* audio filenames that exist in audio_dir
    upc,              \* position of the update_slides call
    uidx,             \* update_slides: index of `item` in slide_map
    audio_counter,    \* update_slides local
    requests,         \* update_slide_text_fields local
    runs,             \* update_slides calls made so far
    uresult,          \* what the last update_slides call returned or raised
    slides0,          \* the document when the last update_slides call began
    quota_failed,     \* an upload of the call failed with storageQuotaExceeded
    reachable,        \* the connectivity check of the call has succeeded
    fs,               \* the output folder: section -> text of <section>.json, None if absent
    gpc,              \* position of the run_pipeline call
    gidx,             \* run_pipeline: index of the section being produced
    cached_sections,  \* run_pipeline local, section -> cached value
    base_context,     \* run_pipeline local: the sections of the bundle being built
    called,           \* sections the LLM was invoked for in the current run
    gruns,            \* run_pipeline calls made so far
    wcall,            \* the last write_json_if_changed call: section, content, wrote
    wlast,            \* section -> content of the last write_json_if_changed call on it
    ncalls,           \* write_json_if_changed calls made so far
    fncall,           \* a call of a helper of slide_updater.py: function, arguments, result
    docs,             \* Drive: presentation id -> number of mutations the document has taken
    cpc,              \* position of an update_slides call seen by the ids of its requests
    create_new,       \* create_new_presentation of the call
    eid,              \* effective_presentation_id of the call
    sent,             \* the requests of the call so far: (kind, presentation id)
    cidx,             \* index of the item of slide_map the call is at
    cresult,          \* what the call returned or raised
    cruns             \* calls made so far

orchVars == <<pipeline_locks, pipeline_lock, jobs_lock, jobs, pc, req,
              presentation_id, slides_url, wemail, exc, target, env, payload, base_path, output_dir>>
pollVars == <<ppc, pref, pjob, pst, presp>>
updVars == <<slides, drive, files, upc, uidx, audio_counter, requests, runs, uresult,
             slides0, quota_failed, reachable>>
genVars == <<fs, gpc, gidx, cached_sections, base_context, called, gruns, wcall, wlast, ncalls>>
fnVars == <<fncall>>
copyVars == <<docs, cpc, create_new, eid, sent, cidx, cresult, cruns>>
vars == <<orchVars, pollVars, updVars, genVars, fnVars, copyVars>>

\* ------------------------------------------------------------- helpers
\* the dict literal of app.py:33-37 ("email" is absent: .get gives None)
NewJob == [status |-> "processing", slides_url |-> None, error |-> None, email |-> None]

\* _presentation_url
PresentationUrl(d) == "https://docs.google.com/presentation/d/" \o d \o "/preview"

\* _prepare_presentation_id
PreparePresentationId(id, create_new_presentation) ==
    IF create_new_presentation THEN "copy_of_" \o id ELSE id

\* threading.Lock: acquirable when nobody owns it
LockFree(l) == l = 0

\* a guard lookup that never finds the entry
GuardHeldNever(locks, e) == FALSE
\* pipeline_locks.get(email)
GuardHeld(locks, e) == e \in locks
\* pipeline_locks[email] = True
TakeGuard(locks, e) == locks \cup {e}
\* a pop that leaves the entry in place
ReleaseGuardKept(locks, e) == locks
\* pipeline_locks.pop(email, None)
ReleaseGuard(locks, e) == locks \ {e}

\* payload.get("presentation_id") or os.getenv("PRESENTATION_ID")
ResolvedId(r) == IF req[r].presentation_id # None THEN req[r].presentation_id
                 ELSE env.PRESENTATION_ID

\* sanitize_filename (content_generator.py:471-485) on the values the model
\* uses: runs of non-word characters become "_", the ends are stripped of "_",
\* the rest is lowered, and nothing or an empty result gives the default
SanitizeFilename(name) ==
    CASE name = None      -> "anonymous"
      [] name = ""        -> "anonymous"
      [] name = "Ann Lee" -> "ann_lee"
      [] name = "ann-lee" -> "ann_lee"
      [] name = "Bob"     -> "bob"
      [] OTHER            -> name
\* OutputPaths.for_user (content_generator.py:68-74): Path("output") / sanitized
ForUser(body) ==
    "output/" \o SanitizeFilename(IF body.folder_path # None THEN body.folder_path
                                  ELSE body.name)
\* pipeline.py:42-44: os.path.join("output", sanitize_filename(payload.get("name")))
OutputDir(body) == "output/" \o SanitizeFilename(body.name)

\* a handler of the failed send that re-raises into the outer handler
EmailFailureRaised == "w_except"
\* where the handler of a failed send_email_api leaves the run (pipeline.py:113-117)
EmailFailureNext == "w_finally"

\* jobs[request_id][field] = value
SetField(id, field, value) == [jobs EXCEPT ![id][field] = value]

Min(a, b) == IF a < b THEN a ELSE b

\* ------------------------------------------------------------- Init

\* the process after import: no guard, no job, no thread
OrchStart ==
    /\ pipeline_locks = {}
    /\ pipeline_lock = 0
    /\ jobs_lock = 0
    /\ jobs = <<>>
    /\ pc = [r \in Reqs |-> "idle"]
    /\ req = [r \in Reqs |-> [email |-> NoEmail, request_id |-> 1, presentation_id |-> None]]
    /\ presentation_id = [r \in Reqs |-> None]
    /\ slides_url = [r \in Reqs |-> None]
    /\ wemail = [r \in Reqs |-> None]
    /\ exc = [r \in Reqs |-> None]
    /\ target = [r \in Reqs |-> None]
    /\ base_path = [r \in Reqs |-> None]
    /\ output_dir = [r \in Reqs |-> None]

\* every request carries the same body
OrchInit ==
    /\ OrchStart
    /\ payload = [r \in Reqs |-> PayloadSeq[1]]
    \* os.getenv("PRESENTATION_ID") and config.RESULT_DELIVERY_MODE
    /\ env \in [PRESENTATION_ID : {"T", None}, RESULT_DELIVERY_MODE : {"email", "app"}]

PollInit ==
    /\ ppc = "idle"
    /\ pref = 1
    /\ pjob = [live |-> FALSE, rec |-> NewJob]
    /\ pst = None
    /\ presp = [status |-> None, slides_url |-> None]

\* ------------------------------------------------------------- slide map
\* the "source" of a slide spec: None, the name of a section of the bundle, or
\* a collection of the bundle with the fields a record of it must match
NoSource == [kind |-> "none"]
Named(name) == [kind |-> "name", name |-> name]
Filtered(collection, match) == [kind |-> "filter", collection |-> collection, match |-> match]

\* a slide_map in the shape of slide_updater.py:17-114: a label is the list of
\* its tokens between underscores, a position is absolute or "label + N",
\* field_map maps the index of a text box to a key of the content record
SlideMap == <<
    [label |-> <<"fictional", "profile">>,
     position |-> [kind |-> "abs", base |-> <<>>, n |-> 1],
     source |-> Named("fictional_profile"), field_map |-> << <<0, "narrative">> >>, add_audio |-> FALSE],
    [label |-> <<"capability", "create">>,
     position |-> [kind |-> "rel", base |-> <<"fictional", "profile">>, n |-> 1],
     source |-> NoSource, field_map |-> << <<1, "name">>, <<2, "audio">> >>, add_audio |-> TRUE],
    [label |-> <<"capability", "organize">>,
     position |-> [kind |-> "rel", base |-> <<"capability", "create">>, n |-> 1],
     source |-> Named("fictional_profile"), field_map |-> << <<0, "narrative">> >>,
     add_audio |-> TRUE] >>

\* the content bundle passed as content_dict
ContentDict == [fictional_profile |-> [narrative |-> " story "], user_input |-> [name |-> "ann"]]

\* a strip() that removes nothing
StripNothing(t) == t
\* str.strip() on the values the model uses
Strip(t) == CASE t = " story "  -> "story"
              [] t = " "        -> ""
              [] t = " inform " -> "inform"
              [] OTHER          -> t

\* a lower() that changes nothing
LowerNothing(t) == t
\* str.lower() on the values the model uses
Lower(t) == CASE t = "Inform" -> "inform"
              [] t = "INFORM" -> "inform"
              [] t = "Create" -> "create"
              [] OTHER        -> t

\* an absolute position taken as the index
AbsIndexOneBased(p) == p
\* slide_updater.py:151, the index of the absolute position pos
AbsIndex(p) == p - 1

\* resolve_positions: one pass, label -> zero-based index; the KeyError on a
\* base label not resolved yet leaves the function without a result
RECURSIVE ResolvePositionsFrom(_, _, _)
ResolvePositionsFrom(map, k, acc) ==
    IF k > Len(map) THEN [ok |-> TRUE, at |-> acc]
    ELSE LET item == map[k]
             pos == item.position
             put(v) == [l \in DOMAIN acc \cup {item.label} |->
                          IF l = item.label THEN v ELSE acc[l]]
         IN IF pos.kind = "abs"
            THEN ResolvePositionsFrom(map, k + 1, put(AbsIndex(pos.n)))
            ELSE IF pos.base \notin DOMAIN acc
            THEN [ok |-> FALSE, at |-> <<>>]
            ELSE ResolvePositionsFrom(map, k + 1, put(acc[pos.base] + pos.n))
ResolvePositions(map) == ResolvePositionsFrom(map, 1, <<>>)

\* matches(item, match) of resolve_content, slide_updater.py:204-210
Matches(item, match) ==
    \A k \in DOMAIN match :
        Lower(Strip(IF k \in DOMAIN item THEN item[k] ELSE "")) = Lower(Strip(match[k]))

\* the loop of slide_updater.py:212-214 from item k on, {} after the last item
RECURSIVE FirstMatch(_, _, _)
FirstMatch(collection, match, k) ==
    IF k > Len(collection) THEN <<>>
    ELSE IF Matches(collection[k], match) THEN collection[k]
    ELSE FirstMatch(collection, match, k + 1)

\* resolve_content
ResolveContent(source, content_dict) ==
    CASE source.kind = "none" -> <<>>
      [] source.kind = "name" ->
           IF source.name \in DOMAIN content_dict THEN content_dict[source.name] ELSE <<>>
      [] source.kind = "filter" ->
           FirstMatch(IF source.collection \in DOMAIN content_dict
                      THEN content_dict[source.collection] ELSE <<>>,
                      source.match, 1)

\* _infer_audio_prefix: folder_path or name of user_input
InferAudioPrefix(content_dict) == content_dict.user_input.name

\* slide_updater.py:528-531: <prefix>_capability_<audio_index>_<label suffix>.mp3
AudioFilename(prefix, index, label) == <<prefix, "capability", index, label[Len(label)], "mp3">>

\* the filenames update_slides asks for under SlideMap
RECURSIVE AudioIndexFrom(_, _)
AudioIndexFrom(map, k) ==
    IF k = 0 THEN 1
    ELSE AudioIndexFrom(map, k - 1) + (IF map[k].add_audio THEN 1 ELSE 0)
AudioNames == {AudioFilename(InferAudioPrefix(ContentDict), AudioIndexFrom(SlideMap, k), SlideMap[k].label) :
                  k \in {j \in DOMAIN SlideMap : SlideMap[j].add_audio}}

\* a test that also finds the last box missing
NoSuchBoxFromLast(index, boxes) == index >= Len(boxes) - 1
\* slide_updater.py:476, `index >= len(text_shapes)`
NoSuchBox(index, boxes) == index >= Len(boxes)

\* a test that finds no text in any box
HoldsTextNever(old_text) == FALSE
\* slide_updater.py:494, `old_text and old_text.strip()`
HoldsText(old_text) == old_text # "" /\ Strip(old_text) # ""

\* slide_updater.py:472-509: the requests of one slide, the (index, field)
\* entries of field_map taken in order; text box i of the code is boxes[i + 1]
RECURSIVE TextRequests(_, _, _, _)
TextRequests(boxes, field_map, jsondata, k) ==
    IF k > Len(field_map) THEN <<>>
    ELSE LET index    == field_map[k][1]
             field    == field_map[k][2]
             new_text == Strip(IF field \in DOMAIN jsondata THEN jsondata[field] ELSE "")
             rest     == TextRequests(boxes, field_map, jsondata, k + 1)
         IN IF NoSuchBox(index, boxes) \/ new_text = "" THEN rest
            ELSE (IF HoldsText(boxes[index + 1])
                  THEN <<[op |-> "deleteText", box |-> index + 1, text |-> ""]>> ELSE <<>>)
                 \o <<[op |-> "insertText", box |-> index + 1, text |-> new_text]>> \o rest

\* the Slides API applying deleteText / insertText (at index 0) to the text boxes
RECURSIVE ApplyRequests(_, _)
ApplyRequests(boxes, reqs) ==
    IF reqs = <<>> THEN boxes
    ELSE LET q == Head(reqs)
         IN ApplyRequests([boxes EXCEPT ![q.box] =
                              IF q.op = "deleteText" THEN "" ELSE q.text \o @],
                          Tail(reqs))

\* ------------------------------------------------------------- helper arguments
\* slide maps for resolve_positions: label and position of each item
PosLabels == {<<"user", "input">>, <<"capability", "inform">>, <<"capability", "create">>}
Positions == {[kind |-> "abs", base |-> <<>>, n |-> n] : n \in {1, 3}}
             \cup {[kind |-> "rel", base |-> b, n |-> n] : b \in PosLabels, n \in {1, 2}}
SlideSpecLists ==
    UNION {[1..n -> {[label |-> l, position |-> p] : l \in PosLabels, p \in Positions}] :
              n \in 0..MaxSpecs}

\* text boxes, field maps (a dict: its indexes are distinct) and content
\* records for update_slide_text_fields
FieldNames   == {"name", "narrative"}
FieldMaps    == {fm \in UNION {[1..n -> (0..MaxBoxes) \X FieldNames] :
                                  n \in 0..Cardinality(FieldNames)} :
                    \A i, j \in DOMAIN fm : i # j => fm[i][1] # fm[j][1]}
JsonRecords  == UNION {[d -> {"", " ", " story ", "ann"}] : d \in SUBSET FieldNames}

\* bundles and sources for resolve_content: the collection "uses" is a list
\* of records, present or not; the section "bio" is never present
UseRecords  == {[capability |-> c, name |-> n] :
                   c \in {"inform", "INFORM", " inform ", "Create"}, n \in {"x", "y"}}
               \cup {[name |-> n] : n \in {"x", "y"}}
Bundles     == {[fictional_profile |-> [narrative |-> " story "], uses |-> l] :
                   l \in UNION {[1..n -> UseRecords] : n \in 0..MaxRecords}}
               \cup {[fictional_profile |-> [narrative |-> " story "]]}
SourceDefs  == {NoSource, Named("fictional_profile"), Named("bio")}
               \cup {Filtered("uses", [capability |-> c]) : c \in {"Inform", " inform ", "Create"}}
               \cup {Filtered("uses", [capability |-> "Inform", name |-> "y"])}

\* text boxes as collected at slide_updater.py:449-457: the objectId numbers
\* the box in the order of pageElements, top and left are translateY and
\* translateX
TextShapes(l) == [i \in DOMAIN l |-> [objectId |-> i, top |-> l[i][1], left |-> l[i][2]]]

\* round(x / 10) * 10 for an integer x: round() takes a half to the even side
RoundTens(x) ==
    LET q == x \div 10
        r == x % 10
    IN 10 * (IF r < 5 THEN q ELSE IF r > 5 THEN q + 1 ELSE IF q % 2 = 0 THEN q ELSE q + 1)

\* a key that orders by left alone
SortKeyLeft(x) == <<0, x.left>>
\* the key of slide_updater.py:470
SortKey(x) == <<RoundTens(x.top), x.left>>

\* the order of Python tuples
TupleLess(a, b) == a[1] < b[1] \/ (a[1] = b[1] /\ a[2] < b[2])

\* list.sort(key=...): a stable sort, here by insertion from the left
RECURSIVE InsertSorted(_, _)
InsertSorted(sorted, x) ==
    IF sorted = <<>> THEN <<x>>
    ELSE IF TupleLess(SortKey(x), SortKey(Head(sorted))) THEN <<x>> \o sorted
    ELSE <<Head(sorted)>> \o InsertSorted(Tail(sorted), x)
RECURSIVE SortShapes(_, _)
SortShapes(shapes, k) ==
    IF k = 0 THEN <<>> ELSE InsertSorted(SortShapes(shapes, k - 1), shapes[k])

\* slide_updater.py:479, the box a field_map index addresses
ObjectIdAt(text_shapes, index) == text_shapes[index + 1].objectId

FnIdle == fncall = [fn |-> "none"]

\* ------------------------------------------------------------- documents by id
\* the presentation_id update_slides is called with, and the ids Drive gives
\* to the copies it makes, one for each call
SourceId  == "T"
CopyIdSeq == <<"copy1", "copy2", "copy3", "copy4">>

\* requests that keep using the id update_slides was called with
RequestIdOfSource(given_id, effective_id) == given_id
\* the presentationId of the requests of update_slides (slide_updater.py:610,
\* 642) and of update_slide_text_fields (410, 514, 569)
RequestId(given_id, effective_id) == effective_id

CopyIdle ==
    /\ docs = [d \in {SourceId} |-> 0]
    /\ cpc = "c_idle"
    /\ create_new = FALSE
    /\ eid = None
    /\ sent = {}
    /\ cidx = 1
    /\ cresult = None
    /\ cruns = 0

\* ------------------------------------------------------------- content cache
\* JSON values, tagged by type.  Python's None is the JSON null.  Texts are
\* written without the double quotes of JSON: 'x' is the string x and {k:x}
\* the record with the one field k.
JNull   == [t |-> "null", v |-> ""]
JStr(x) == [t |-> "str", v |-> x]
JObj(x) == [t |-> "obj", v |-> x]
NoContent == [t |-> "none", v |-> ""]     \* no call made yet

\* what the LLM answers and what a section file can hold: a record, a text
\* that is no JSON, a string that holds the JSON text of a record, a string
\* that holds the JSON text null, and null
JsonValues == {JObj("a"), JStr("hello"), JStr("{k:a}"), JStr("null"), JNull}

\* json.dumps(content, ensure_ascii=False, indent=2)
Dumps(c) == CASE c.t = "null" -> "null"
              [] c.t = "str"  -> "'" \o c.v \o "'"
              [] c.t = "obj"  -> "{k:" \o c.v \o "}"

\* json.loads(text): [ok, value]; a text that is no JSON raises JSONDecodeError
Loads(text) == IF text \in {Dumps(c) : c \in JsonValues}
               THEN [ok |-> TRUE, value |-> CHOOSE c \in JsonValues : Dumps(c) = text]
               ELSE [ok |-> FALSE, value |-> JNull]

\* SECTION_SEQUENCE (content_generator.py:384-390) and json_sections (201-206),
\* with two of the four JSON sections
SectionSeq   == <<"bio", "fictional_profile", "capability_use_cases">>
Sections     == {SectionSeq[i] : i \in DOMAIN SectionSeq}
JsonSections == {"fictional_profile", "capability_use_cases"}

\* OutputPaths.load_json and load_json_if_valid: None for a missing file, for
\* a file that is no JSON, and for the file that holds null
LoadJson(file) == IF file = None THEN JNull
                  ELSE IF Loads(file).ok THEN Loads(file).value ELSE JNull

\* write_json_if_changed, content_generator.py:89-103: does it write, and the
\* text of the file after the call
WritesFile(file, content) ==
    ~(LoadJson(file) # JNull /\ Dumps(LoadJson(file)) = Dumps(content))
WriteJsonIfChanged(file, content) ==
    IF WritesFile(file, content) THEN Dumps(content) ELSE file

\* a detect_cached_sections that finds nothing
DetectNothing(folder) == <<>>
\* detect_cached_sections, content_generator.py:558-567, for a user_input.json
\* without the inline sections
DetectCachedSections(folder) ==
    [sec \in {x \in Sections : LoadJson(folder[x]) # JNull} |-> LoadJson(folder[sec])]

\* ensure_text, content_generator.py:612-631
EnsureText(c) == CASE c.t = "str"  -> c
                   [] c.t = "null" -> JStr("None")
                   [] OTHER        -> JStr(Dumps(c))

\* dict.get(key) with None for a missing key
Get(dict, key) == IF key \in DOMAIN dict THEN dict[key] ELSE JNull
\* dict[key] = value
Put(dict, key, value) == [x \in DOMAIN dict \cup {key} |-> IF x = key THEN value ELSE dict[x]]

\* what the LLM client returns for a prompt: run_llm parses it when
\* expect_json, and returns the cleaned text otherwise (content_generator.py:159-168)
LlmContents(expect_json) == IF expect_json THEN JsonValues ELSE {JStr("hello")}

GenIdle ==
    /\ fs = [sec \in Sections |-> None]
    /\ gpc = "g_idle"
    /\ gidx = 1
    /\ cached_sections = <<>>
    /\ base_context = <<>>
    /\ called = {}
    /\ gruns = 0
    /\ wcall = [section |-> "", content |-> NoContent, wrote |-> FALSE]
    /\ wlast = [sec \in Sections |-> NoContent]
    /\ ncalls = 0

UpdIdle ==
    /\ upc = "u_idle"
    /\ uidx = 1
    /\ audio_counter = 1
    /\ requests = <<>>
    /\ runs = 0
    /\ uresult = None
    /\ drive = [f \in AudioNames |-> 0]
    /\ quota_failed = FALSE
    /\ reachable = FALSE

Init == /\ OrchInit /\ PollInit /\ UpdIdle /\ GenIdle /\ FnIdle /\ CopyIdle
        /\ slides = [s \in 1..NumSlides |-> [boxes |-> <<"placeholder">>, videos |-> 0]]
        /\ slides0 = slides
        /\ files = AudioNames

\* the initial states with every assignment of bodies to the requests
InitDir == /\ OrchStart /\ PollInit /\ UpdIdle /\ GenIdle /\ FnIdle /\ CopyIdle
           /\ payload \in [Reqs -> {PayloadSeq[i] : i \in DOMAIN PayloadSeq}]
           /\ env \in [PRESENTATION_ID : {"T", None}, RESULT_DELIVERY_MODE : {"email", "app"}]
           /\ slides = [s \in 1..NumSlides |-> [boxes |-> <<"placeholder">>, videos |-> 0]]
           /\ slides0 = slides
           /\ files = AudioNames

\* the initial state with one configuration of the process
InitQuiet == Init /\ env = [PRESENTATION_ID |-> "T", RESULT_DELIVERY_MODE |-> "app"]

\* documents the runs start from: a text box or none on each slide, one
\* document too short for the last slide of SlideMap; any of the audio files
InitUpd == /\ OrchInit /\ PollInit /\ UpdIdle /\ GenIdle /\ FnIdle /\ CopyIdle
           /\ env = [PRESENTATION_ID |-> "T", RESULT_DELIVERY_MODE |-> "app"]
           /\ slides \in UNION {[1..n -> {[boxes |-> <<>>, videos |-> 0],
                                          [boxes |-> <<"placeholder">>, videos |-> 0]}] :
                                   n \in (NumSlides - 1)..NumSlides}
           /\ slides0 = slides
           /\ files \in SUBSET AudioNames

\* ------------------------------------------------------------- admission
\* create_presentation, app.py:15-24: the request is parsed, the id drawn and
\* pipeline_lock entered.  Request slots are used in order, and emails and
\* uuid values being interchangeable, the r-th request draws among the first
\* r of them.
Submit(r) ==
    /\ pc[r] = "idle"
    /\ \A q \in Reqs : q < r => pc[q] # "idle"
    /\ \E e \in {EmailSeq[i] : i \in 1..Min(r, Len(EmailSeq))} \cup {NoEmail},
          id \in 1..Min(r, MaxIds), p \in {"P", None} :
         IF e = NoEmail
         THEN /\ pc' = [pc EXCEPT ![r] = "bad_request"]
              /\ UNCHANGED <<req, pipeline_lock>>
         ELSE /\ LockFree(pipeline_lock)
              /\ pipeline_lock' = r
              /\ req' = [req EXCEPT ![r] = [email |-> e, request_id |-> id, presentation_id |-> p]]
              /\ pc' = [pc EXCEPT ![r] = "check_guard"]
    /\ UNCHANGED <<pipeline_locks, jobs_lock, jobs,
                   presentation_id, slides_url, wemail, exc, target, env, payload, base_path, output_dir>>
    /\ UNCHANGED <<pollVars, updVars, genVars, fnVars, copyVars>>

\* `with pipeline_lock:` at app.py:44
AcquirePipelineLock(r) ==
    /\ pc[r] = "w_finally"
    /\ LockFree(pipeline_lock)
    /\ pipeline_lock' = r
    /\ pc' = [pc EXCEPT ![r] = "w_pop"]
    /\ UNCHANGED <<pipeline_locks, jobs_lock, jobs, req,
                   presentation_id, slides_url, wemail, exc, target, env, payload, base_path, output_dir>>
    /\ UNCHANGED <<pollVars, updVars, genVars, fnVars, copyVars>>

\* app.py:25-28
CheckGuard(r) ==
    /\ pc[r] = "check_guard"
    /\ IF GuardHeld(pipeline_locks, req[r].email)
       THEN /\ pipeline_lock' = 0
            /\ pc' = [pc EXCEPT ![r] = "rejected"]
       ELSE /\ pc' = [pc EXCEPT ![r] = "set_guard"]
            /\ UNCHANGED pipeline_lock
    /\ UNCHANGED <<pipeline_locks, jobs_lock, jobs, req,
                   presentation_id, slides_url, wemail, exc, target, env, payload, base_path, output_dir>>
    /\ UNCHANGED <<pollVars, updVars, genVars, fnVars, copyVars>>

\* app.py:29 and the end of the with block
SetGuard(r) ==
    /\ pc[r] = "set_guard"
    /\ pipeline_locks' = TakeGuard(pipeline_locks, req[r].email)
    /\ pipeline_lock' = 0
    /\ pc' = [pc EXCEPT ![r] = "lock_jobs"]
    /\ UNCHANGED <<jobs_lock, jobs, req,
                   presentation_id, slides_url, wemail, exc, target, env, payload, base_path, output_dir>>
    /\ UNCHANGED <<pollVars, updVars, genVars, fnVars, copyVars>>

\* `with jobs_lock:` at app.py:32, pipeline.py:93 and pipeline.py:129
AcquireJobsLock(r) ==
    /\ pc[r] \in {"lock_jobs", "w_lock_done", "w_except"}
    /\ LockFree(jobs_lock)
    /\ jobs_lock' = r
    /\ pc' = [pc EXCEPT ![r] = CASE pc[r] = "lock_jobs"   -> "insert_job"
                                 [] pc[r] = "w_lock_done" -> "w_status"
                                 [] pc[r] = "w_except"    -> "w_err_status"]
    /\ UNCHANGED <<pipeline_locks, pipeline_lock, jobs, req,
                   presentation_id, slides_url, wemail, exc, target, env, payload, base_path, output_dir>>
    /\ UNCHANGED <<pollVars, updVars, genVars, fnVars, copyVars>>

\* app.py:33-52: the job dict is stored under request_id, the worker thread
\* is started and the request_id returned.  A get_status that holds the dict
\* this assignment replaces keeps the replaced dict.
InsertJob(r) ==
    /\ pc[r] = "insert_job"
    /\ jobs' = [id \in DOMAIN jobs \cup {req[r].request_id} |->
                  IF id = req[r].request_id THEN NewJob ELSE jobs[id]]
    /\ pjob' = IF ppc # "idle" /\ pref = req[r].request_id /\ pjob.live
               THEN [live |-> FALSE, rec |-> jobs[pref]] ELSE pjob
    /\ jobs_lock' = 0
    /\ pc' = [pc EXCEPT ![r] = "w_start"]
    /\ UNCHANGED <<pipeline_locks, pipeline_lock, req,
                   presentation_id, slides_url, wemail, exc, target, env, payload, base_path, output_dir>>
    /\ UNCHANGED <<ppc, pref, pst, presp>>
    /\ UNCHANGED <<updVars, genVars, fnVars, copyVars>>

\* ------------------------------------------------------------- worker
\* run_full_pipeline, pipeline.py:22-31: the prints of the request data are
\* guarded by a handler that returns without touching the job
PipelineStart(r) ==
    /\ pc[r] = "w_start"
    /\ \E raises \in BOOLEAN :
         pc' = [pc EXCEPT ![r] = IF raises THEN "w_finally" ELSE "w_generate"]
    /\ UNCHANGED <<pipeline_locks, pipeline_lock, jobs_lock, jobs, req, presentation_id, slides_url, wemail, exc, target, env, payload, base_path, output_dir>>
    /\ UNCHANGED <<pollVars, updVars, genVars, fnVars, copyVars>>

\* pipeline.py:33-75: run_pipeline(payload) raises, before or after its
\* output folder was made (content_generator.py:175), or returns; then the
\* output directory is made and the presentation id looked up
GenerateContent(r) ==
    /\ pc[r] = "w_generate"
    /\ \E ok \in BOOLEAN :
         IF ~ok
         THEN /\ pc' = [pc EXCEPT ![r] = "w_except"]
              /\ exc' = [exc EXCEPT ![r] = "content generation failed"]
              /\ \E made \in BOOLEAN :
                    base_path' = [base_path EXCEPT ![r] =
                                    IF made THEN ForUser(payload[r]) ELSE None]
              /\ UNCHANGED <<presentation_id, output_dir>>
         ELSE /\ base_path' = [base_path EXCEPT ![r] = ForUser(payload[r])]
              /\ output_dir' = [output_dir EXCEPT ![r] = OutputDir(payload[r])]
              /\ IF ResolvedId(r) = None
                 THEN /\ pc' = [pc EXCEPT ![r] = "w_except"]
                      /\ exc' = [exc EXCEPT ![r] = "presentation_id is required"]
                      /\ UNCHANGED presentation_id
                 ELSE /\ pc' = [pc EXCEPT ![r] = "w_update"]
                      /\ presentation_id' = [presentation_id EXCEPT ![r] = ResolvedId(r)]
                      /\ UNCHANGED exc
    /\ UNCHANGED <<pipeline_locks, pipeline_lock, jobs_lock, jobs, req, slides_url, wemail, target, env, payload>>
    /\ UNCHANGED <<pollVars, updVars, genVars, fnVars, copyVars>>

\* the document id update_slides works on (slide_updater.py:600-605), called
\* at pipeline.py:83-89 with create_new_presentation=False
EffectiveId(r) == PreparePresentationId(presentation_id[r], FALSE)

\* pipeline.py:83-90, update_slides (slide_updater.py:597-656): the
\* connectivity check fails before any mutation, or the batch updates of the
\* slide loop go to the effective id and the loop ends with the link or raises
UpdateSlides(r) ==
    /\ pc[r] = "w_update"
    /\ \E connected \in BOOLEAN, ok \in BOOLEAN :
         IF ~connected
         THEN /\ pc' = [pc EXCEPT ![r] = "w_except"]
              /\ exc' = [exc EXCEPT ![r] = "Slides API connection failed"]
              /\ UNCHANGED <<slides_url, target>>
         ELSE /\ target' = [target EXCEPT ![r] = EffectiveId(r)]
              /\ IF ok
                 THEN /\ pc' = [pc EXCEPT ![r] = "w_lock_done"]
                      /\ slides_url' = [slides_url EXCEPT ![r] = PresentationUrl(EffectiveId(r))]
                      /\ UNCHANGED exc
                 ELSE /\ pc' = [pc EXCEPT ![r] = "w_except"]
                      /\ exc' = [exc EXCEPT ![r] = "slide update failed"]
                      /\ UNCHANGED slides_url
    /\ UNCHANGED <<pipeline_locks, pipeline_lock, jobs_lock, jobs, req, presentation_id, wemail, env, payload, base_path, output_dir>>
    /\ UNCHANGED <<pollVars, updVars, genVars, fnVars, copyVars>>

\* pipeline.py:94
WriteCompleted(r) ==
    /\ pc[r] = "w_status"
    /\ jobs' = SetField(req[r].request_id, "status", "completed")
    /\ pc' = [pc EXCEPT ![r] = "w_url"]
    /\ UNCHANGED <<pipeline_locks, pipeline_lock, jobs_lock, req, presentation_id, slides_url, wemail, exc, target, env, payload, base_path, output_dir>>
    /\ UNCHANGED <<pollVars, updVars, genVars, fnVars, copyVars>>

\* pipeline.py:95
WriteUrl(r) ==
    /\ pc[r] = "w_url"
    /\ jobs' = SetField(req[r].request_id, "slides_url", slides_url[r])
    /\ pc' = [pc EXCEPT ![r] = "w_email"]
    /\ UNCHANGED <<pipeline_locks, pipeline_lock, jobs_lock, req, presentation_id, slides_url, wemail, exc, target, env, payload, base_path, output_dir>>
    /\ UNCHANGED <<pollVars, updVars, genVars, fnVars, copyVars>>

\* pipeline.py:96 and the end of the with block
WriteEmail(r) ==
    /\ pc[r] = "w_email"
    /\ jobs' = SetField(req[r].request_id, "email", req[r].email)
    /\ jobs_lock' = 0
    /\ pc' = [pc EXCEPT ![r] = "w_read"]
    /\ UNCHANGED <<pipeline_locks, pipeline_lock, req, presentation_id, slides_url, wemail, exc, target, env, payload, base_path, output_dir>>
    /\ UNCHANGED <<pollVars, updVars, genVars, fnVars, copyVars>>

\* pipeline.py:98-101: jobs[request_id] is read after the with block
ReadJob(r) ==
    /\ pc[r] = "w_read"
    /\ wemail' = [wemail EXCEPT ![r] = jobs[req[r].request_id].email]
    /\ pc' = [pc EXCEPT ![r] = "w_print"]
    /\ UNCHANGED <<pipeline_locks, pipeline_lock, jobs_lock, jobs, req, presentation_id, slides_url, exc, target, env, payload, base_path, output_dir>>
    /\ UNCHANGED <<pollVars, updVars, genVars, fnVars, copyVars>>

\* pipeline.py:102-105 and 118-122: inside the outer try the delivery check
\* prints the email (a print of request data, as at pipeline.py:27), then
\* chooses between sending and not sending
DeliveryCheck(r) ==
    /\ pc[r] = "w_print"
    /\ \E raises \in BOOLEAN :
         IF raises
         THEN /\ pc' = [pc EXCEPT ![r] = "w_except"]
              /\ exc' = [exc EXCEPT ![r] = "print failed"]
         ELSE /\ pc' = [pc EXCEPT ![r] =
                    IF env.RESULT_DELIVERY_MODE \in {"email", "both"} /\ wemail[r] # None
                    THEN "w_send" ELSE "w_finally"]
              /\ UNCHANGED exc
    /\ UNCHANGED <<pipeline_locks, pipeline_lock, jobs_lock, jobs, req, presentation_id, slides_url, wemail, target, env, payload, base_path, output_dir>>
    /\ UNCHANGED <<pollVars, updVars, genVars, fnVars, copyVars>>

\* pipeline.py:106-112: send_email_api returns or raises
SendEmail(r) ==
    /\ pc[r] = "w_send"
    /\ \E ok \in BOOLEAN :
         pc' = [pc EXCEPT ![r] = IF ok THEN "w_finally" ELSE "w_email_failed"]
    /\ UNCHANGED <<pipeline_locks, pipeline_lock, jobs_lock, jobs, req, presentation_id, slides_url, wemail, exc, target, env, payload, base_path, output_dir>>
    /\ UNCHANGED <<pollVars, updVars, genVars, fnVars, copyVars>>

\* pipeline.py:113-117: the handler of the failed send logs and goes on
EmailFailure(r) ==
    /\ pc[r] = "w_email_failed"
    /\ pc' = [pc EXCEPT ![r] = EmailFailureNext]
    /\ exc' = [exc EXCEPT ![r] = IF EmailFailureNext = "w_except" THEN "email failed" ELSE exc[r]]
    /\ UNCHANGED <<pipeline_locks, pipeline_lock, jobs_lock, jobs, req, presentation_id, slides_url, wemail, target, env, payload, base_path, output_dir>>
    /\ UNCHANGED <<pollVars, updVars, genVars, fnVars, copyVars>>

\* pipeline.py:130
WriteError(r) ==
    /\ pc[r] = "w_err_status"
    /\ jobs' = SetField(req[r].request_id, "status", "error")
    /\ pc' = [pc EXCEPT ![r] = "w_err_msg"]
    /\ UNCHANGED <<pipeline_locks, pipeline_lock, jobs_lock, req, presentation_id, slides_url, wemail, exc, target, env, payload, base_path, output_dir>>
    /\ UNCHANGED <<pollVars, updVars, genVars, fnVars, copyVars>>

\* pipeline.py:131-133 and the end of the with block
WriteErrorMessage(r) ==
    /\ pc[r] = "w_err_msg"
    /\ jobs' = SetField(req[r].request_id, "error", exc[r])
    /\ jobs_lock' = 0
    /\ pc' = [pc EXCEPT ![r] = "w_finally"]
    /\ UNCHANGED <<pipeline_locks, pipeline_lock, req, presentation_id, slides_url, wemail, exc, target, env, payload, base_path, output_dir>>
    /\ UNCHANGED <<pollVars, updVars, genVars, fnVars, copyVars>>

\* run(), app.py:42-45, and the end of the thread (its locals die with it)
PopGuard(r) ==
    /\ pc[r] = "w_pop"
    /\ pipeline_locks' = ReleaseGuard(pipeline_locks, req[r].email)
    /\ pipeline_lock' = 0
    /\ pc' = [pc EXCEPT ![r] = "done"]
    /\ req' = [req EXCEPT ![r].request_id = 1, ![r].presentation_id = None]
    /\ presentation_id' = [presentation_id EXCEPT ![r] = None]
    /\ slides_url' = [slides_url EXCEPT ![r] = None]
    /\ wemail' = [wemail EXCEPT ![r] = None]
    /\ exc' = [exc EXCEPT ![r] = None]
    /\ target' = [target EXCEPT ![r] = None]
    /\ base_path' = [base_path EXCEPT ![r] = None]
    /\ output_dir' = [output_dir EXCEPT ![r] = None]
    /\ UNCHANGED <<jobs_lock, jobs, env, payload>>
    /\ UNCHANGED <<pollVars, updVars, genVars, fnVars, copyVars>>

\* ------------------------------------------------------------- polling
\* the dict get_status holds
PollJob == IF pjob.live THEN jobs[pref] ELSE pjob.rec

\* an answer for an unknown id that reads like a job
NotFoundAsProcessing == [status |-> "processing", slides_url |-> None]
\* the body of the 404 answer, app.py:59
NotFound == [status |-> "not_found", slides_url |-> None]

\* get_status, app.py:57-59
PollGet ==
    /\ ppc = "idle"
    /\ \E id \in 1..MaxIds :
         IF id \notin DOMAIN jobs
         THEN /\ presp' = NotFound
              /\ pref' = id
              /\ UNCHANGED <<ppc, pjob, pst>>
         ELSE /\ pref' = id
              /\ pjob' = [live |-> TRUE, rec |-> NewJob]
              /\ ppc' = "p_status"
              /\ presp' = [status |-> None, slides_url |-> None]
              /\ UNCHANGED pst
    /\ UNCHANGED <<orchVars, updVars, genVars, fnVars, copyVars>>

\* app.py:62
PollStatus ==
    /\ ppc = "p_status"
    /\ pst' = PollJob.status
    /\ ppc' = "p_url"
    /\ UNCHANGED <<pref, pjob, presp>>
    /\ UNCHANGED <<orchVars, updVars, genVars, fnVars, copyVars>>

\* app.py:61-64
PollUrl ==
    /\ ppc = "p_url"
    /\ presp' = [status |-> pst, slides_url |-> PollJob.slides_url]
    /\ ppc' = "idle"
    /\ pref' = 1
    /\ pjob' = [live |-> FALSE, rec |-> NewJob]
    /\ pst' = None
    /\ UNCHANGED <<orchVars, updVars, genVars, fnVars, copyVars>>

\* ------------------------------------------------------------- slide update
\* the spec of the slide the loop is at, its zero-based index and its audio file
Item      == SlideMap[uidx]
SlideOf   == ResolvePositions(SlideMap).at[Item.label]
AudioFile == AudioFilename(InferAudioPrefix(ContentDict), audio_counter, Item.label)

\* an exception leaves update_slides
UpdRaise(e) ==
    /\ upc' = "u_idle"
    /\ uresult' = e

\* the loop of slide_updater.py:626 goes to the next item
UpdNextItem ==
    /\ upc' = "u_slide"
    /\ uidx' = uidx + 1

\* a look-up that finds every file
AudioExistsAlways(file, dir) == TRUE
\* os.path.exists(audio_path), slide_updater.py:533
AudioExists(file, dir) == file \in dir

\* a counter that advances for every item
AlwaysAdvance(c, add_audio) == c + 1
\* slide_updater.py:633-637: the counter advances for an item with add_audio
NextAudioCounter(c, add_audio) == IF add_audio THEN c + 1 ELSE c

\* what the failures the model raises are
Errors == {"ConnectionError", "KeyError", "IndexError", "HttpError"}

\* pipeline.py:83-96 and 128-131: the status run_full_pipeline writes after
\* update_slides returned result or raised it
StatusAfter(result) == IF result \in Errors THEN "error" ELSE "completed"

\* a call that goes from _prepare_presentation_id straight to the loop
AfterPrepareLoop == "u_slide"
\* the statement after _prepare_presentation_id: the connectivity check,
\* slide_updater.py:607-611
AfterPrepare == "u_connect"

\* update_slides is called, slide_updater.py:597-605
UpdStart ==
    /\ upc = "u_idle"
    /\ runs < MaxRuns
    /\ runs' = runs + 1
    /\ upc' = AfterPrepare
    /\ uresult' = None
    /\ slides0' = slides
    /\ quota_failed' = FALSE
    /\ reachable' = FALSE
    /\ UNCHANGED <<slides, drive, files, uidx, audio_counter, requests>>
    /\ UNCHANGED <<orchVars, pollVars, genVars, fnVars, copyVars>>

\* slide_updater.py:608-624: connectivity check, resolve_positions, counter
UpdConnect ==
    /\ upc = "u_connect"
    /\ \E ok \in BOOLEAN :
         /\ reachable' = ok
         /\ IF ~ok
            THEN UpdRaise("ConnectionError") /\ UNCHANGED <<uidx, audio_counter>>
            ELSE IF ~ResolvePositions(SlideMap).ok
            THEN UpdRaise("KeyError") /\ UNCHANGED <<uidx, audio_counter>>
            ELSE /\ upc' = "u_slide"
                 /\ uidx' = 1
                 /\ audio_counter' = 1
                 /\ UNCHANGED uresult
    /\ UNCHANGED <<slides, drive, files, requests, runs, slides0, quota_failed>>
    /\ UNCHANGED <<orchVars, pollVars, genVars, fnVars, copyVars>>

\* slide_updater.py:626-637 and update_slide_text_fields up to the requests
\* (409-510): the loop ends with the link, or the slide is fetched, checked
\* for its index and its text boxes, and the requests are computed
UpdSlide ==
    /\ upc = "u_slide"
    /\ IF uidx > Len(SlideMap)
       THEN /\ upc' = "u_idle"
            /\ uresult' = PresentationUrl(PreparePresentationId("T", FALSE))
            /\ UNCHANGED <<uidx, audio_counter, requests>>
       ELSE /\ audio_counter' = NextAudioCounter(audio_counter, Item.add_audio)
            /\ \E fetched \in BOOLEAN :
                 IF ~fetched
                 THEN UpdRaise("HttpError") /\ UNCHANGED <<uidx, requests>>
                 ELSE IF SlideOf < 0 \/ SlideOf >= Len(slides)
                 THEN UpdRaise("IndexError") /\ UNCHANGED <<uidx, requests>>
                 ELSE IF Len(slides[SlideOf + 1].boxes) = 0
                 THEN UpdNextItem /\ UNCHANGED <<uresult, requests>>
                 ELSE /\ requests' = TextRequests(slides[SlideOf + 1].boxes, Item.field_map,
                                                  ResolveContent(Item.source, ContentDict), 1)
                      /\ upc' = "u_text"
                      /\ UNCHANGED <<uidx, uresult>>
    /\ UNCHANGED <<slides, drive, files, runs, slides0, quota_failed, reachable>>
    /\ UNCHANGED <<orchVars, pollVars, genVars, fnVars, copyVars>>

\* slide_updater.py:512-535: the batchUpdate of the text requests, if any, then
\* the audio file is looked for
UpdText ==
    /\ upc = "u_text"
    /\ \E ok \in BOOLEAN :
         IF requests # <<>> /\ ~ok
         THEN UpdRaise("HttpError") /\ UNCHANGED <<slides, uidx>>
         ELSE /\ slides' = [slides EXCEPT ![SlideOf + 1].boxes = ApplyRequests(@, requests)]
              /\ IF Item.add_audio /\ AudioExists(AudioFile, files)
                 THEN upc' = "u_upload" /\ UNCHANGED uidx
                 ELSE UpdNextItem
              /\ UNCHANGED uresult
    /\ requests' = <<>>
    /\ UNCHANGED <<drive, files, audio_counter, runs, slides0, quota_failed, reachable>>
    /\ UNCHANGED <<orchVars, pollVars, genVars, fnVars, copyVars>>

\* slide_updater.py:539-549 and 574-582: _upload_file_to_drive creates a file,
\* or raises (storageQuotaExceeded, or another error) into the handler that
\* prints and returns
UpdUpload ==
    /\ upc = "u_upload"
    /\ \E outcome \in {"created", "storageQuotaExceeded", "HttpError"} :
         IF outcome = "created"
         THEN /\ drive' = [drive EXCEPT ![AudioFile] = @ + 1]
              /\ upc' = "u_video"
              /\ UNCHANGED <<uidx, quota_failed>>
         ELSE /\ UpdNextItem
              /\ quota_failed' = (quota_failed \/ outcome = "storageQuotaExceeded")
              /\ UNCHANGED drive
    /\ UNCHANGED <<slides, files, audio_counter, requests, runs, uresult, slides0, reachable>>
    /\ UNCHANGED <<orchVars, pollVars, genVars, fnVars, copyVars>>

\* slide_updater.py:551-582: the createVideo batchUpdate, its failure swallowed
UpdVideo ==
    /\ upc = "u_video"
    /\ \E ok \in BOOLEAN :
         slides' = IF ok THEN [slides EXCEPT ![SlideOf + 1].videos = @ + 1] ELSE slides
    /\ UpdNextItem
    /\ UNCHANGED <<drive, files, audio_counter, requests, runs, uresult, slides0, quota_failed, reachable>>
    /\ UNCHANGED <<orchVars, pollVars, genVars, fnVars, copyVars>>

\* ------------------------------------------------------------- content generation
Section == SectionSeq[gidx]
otherGen == <<orchVars, pollVars, updVars, fnVars, copyVars>>

\* ContentPipeline.run_pipeline is called for the folder, content_generator.py:170-206
GenStart ==
    /\ gpc = "g_idle"
    /\ gruns < MaxGenRuns
    /\ gruns' = gruns + 1
    /\ cached_sections' = DetectCachedSections(fs)
    /\ base_context' = <<>>
    /\ called' = {}
    /\ gidx' = 1
    /\ gpc' = "g_section"
    /\ UNCHANGED <<fs, wcall, wlast, ncalls>>
    /\ UNCHANGED otherGen

\* content_generator.py:242-253, for a request without a bio: the cached bio
\* is used, or the bio is generated and written (an exception of the LLM
\* leaves run_pipeline)
GenBio ==
    /\ gpc = "g_section"
    /\ gidx <= Len(SectionSeq)
    /\ Section = "bio"
    /\ IF Get(cached_sections, "bio") # JNull
       THEN /\ base_context' = Put(base_context, "bio", EnsureText(Get(cached_sections, "bio")))
            /\ gidx' = gidx + 1
            /\ UNCHANGED <<fs, called, gpc>>
       ELSE /\ called' = called \cup {"bio"}
            /\ \/ /\ gpc' = "g_idle"
                  /\ UNCHANGED <<fs, base_context, gidx>>
               \/ \E content \in LlmContents(FALSE) :
                    /\ fs' = [fs EXCEPT !["bio"] =
                                WriteJsonIfChanged(WriteJsonIfChanged(@, content), EnsureText(content))]
                    /\ base_context' = Put(base_context, "bio", EnsureText(content))
                    /\ gidx' = gidx + 1
                    /\ UNCHANGED gpc
    /\ UNCHANGED <<cached_sections, gruns, wcall, wlast, ncalls>>
    /\ UNCHANGED otherGen

\* the value use_or_generate takes from the cache (content_generator.py:209-229):
\* a string cached for a JSON section is parsed, and dropped if it does not parse
Healed(cached_value) ==
    IF cached_value # JNull /\ cached_value.t = "str"
    THEN (IF Loads(cached_value.v).ok THEN Loads(cached_value.v).value ELSE JNull)
    ELSE cached_value
\* does use_or_generate rewrite the file with the parsed value (content_generator.py:216-218)
Heals(cached_value) ==
    cached_value # JNull /\ cached_value.t = "str" /\ Loads(cached_value.v).ok

\* content_generator.py:255-263 with use_or_generate (208-240) for a JSON
\* section: the cached value is returned, or the LLM is called and its
\* content written; an exception is recorded and the section left out
GenJsonSection ==
    /\ gpc = "g_section"
    /\ gidx <= Len(SectionSeq)
    /\ Section \in JsonSections
    /\ LET cached_value == Get(cached_sections, Section)
           healed       == Healed(cached_value)
           file         == IF Heals(cached_value)
                           THEN WriteJsonIfChanged(fs[Section], healed) ELSE fs[Section]
       IN /\ cached_sections' = IF Heals(cached_value)
                                THEN Put(cached_sections, Section, healed) ELSE cached_sections
          /\ IF healed # JNull
             THEN /\ base_context' = Put(base_context, Section, healed)
                  /\ fs' = [fs EXCEPT ![Section] = file]
                  /\ UNCHANGED called
             ELSE /\ called' = called \cup {Section}
                  /\ \/ /\ fs' = [fs EXCEPT ![Section] = file]
                        /\ UNCHANGED base_context
                     \/ \E content \in LlmContents(TRUE) :
                          /\ fs' = [fs EXCEPT ![Section] = WriteJsonIfChanged(file, content)]
                          /\ base_context' = Put(base_context, Section, content)
    /\ gidx' = gidx + 1
    /\ UNCHANGED <<gpc, gruns, wcall, wlast, ncalls>>
    /\ UNCHANGED otherGen

\* content_generator.py:265-266: the outputs are combined and the bundle returned
GenEnd ==
    /\ gpc = "g_section"
    /\ gidx > Len(SectionSeq)
    /\ gpc' = "g_idle"
    /\ UNCHANGED <<fs, gidx, cached_sections, base_context, called, gruns, wcall, wlast, ncalls>>
    /\ UNCHANGED otherGen

\* OutputPaths.write_json_if_changed(section, content) is called
WriteCall ==
    /\ ncalls < MaxCalls
    /\ \E sec \in Sections, content \in JsonValues :
         /\ fs' = [fs EXCEPT ![sec] = WriteJsonIfChanged(@, content)]
         /\ wcall' = [section |-> sec, content |-> content, wrote |-> WritesFile(fs[sec], content)]
         /\ wlast' = [wlast EXCEPT ![sec] = content]
    /\ ncalls' = ncalls + 1
    /\ UNCHANGED <<gpc, gidx, cached_sections, base_context, called, gruns>>
    /\ UNCHANGED otherGen

\* ------------------------------------------------------------- helper calls
otherFn == <<orchVars, pollVars, updVars, genVars, copyVars>>

\* resolve_positions(slide_map) is called
CallResolvePositions ==
    /\ fncall.fn = "none"
    /\ \E m \in SlideSpecLists :
         fncall' = [fn |-> "resolve_positions", slide_map |-> m, out |-> ResolvePositions(m)]
    /\ UNCHANGED otherFn

\* resolve_content(source_def, content_dict) is called
CallResolveContent ==
    /\ fncall.fn = "none"
    /\ \E source_def \in SourceDefs, content_dict \in Bundles :
         fncall' = [fn |-> "resolve_content", source_def |-> source_def,
                    content_dict |-> content_dict,
                    out |-> ResolveContent(source_def, content_dict)]
    /\ UNCHANGED otherFn

\* slide_updater.py:472-517 on the text boxes of one slide: the requests are
\* computed and applied, and computed once more on the boxes they leave
CallFieldMapper ==
    /\ fncall.fn = "none"
    /\ \E boxes \in UNION {[1..n -> {"", " ", "old"}] : n \in 0..MaxBoxes}, field_map \in FieldMaps, jsondata \in JsonRecords :
         LET reqs  == TextRequests(boxes, field_map, jsondata, 1)
             after == ApplyRequests(boxes, reqs)
         IN fncall' = [fn |-> "field_mapper", boxes |-> boxes, field_map |-> field_map,
                       jsondata |-> jsondata, requests |-> reqs, after |-> after,
                       again |-> TextRequests(after, field_map, jsondata, 1)]
    /\ UNCHANGED otherFn

\* slide_updater.py:446-479 on the text boxes of one slide: they are sorted and
\* each index a field_map can hold is resolved to a box
CallSortShapes ==
    /\ fncall.fn = "none"
    /\ \E l \in UNION {[1..n -> {95, 98, 100, 105, 110} \X {10, 50}] : n \in 0..MaxBoxes} :
         LET sorted == SortShapes(TextShapes(l), Len(l))
         IN fncall' = [fn |-> "sort_shapes", text_shapes |-> TextShapes(l), sorted |-> sorted,
                       addressed |-> [i \in 0..(Len(l) - 1) |-> ObjectIdAt(sorted, i)]]
    /\ UNCHANGED otherFn

\* the call returns
FnReturn ==
    /\ fncall.fn # "none"
    /\ fncall' = [fn |-> "none"]
    /\ UNCHANGED otherFn

\* ------------------------------------------------------------- update of a copy
otherCopy == <<orchVars, pollVars, updVars, genVars, fnVars>>

\* an exception leaves update_slides
CopyRaise(e) ==
    /\ cpc' = "c_idle"
    /\ cresult' = e

\* update_slides(presentation_id, ..., create_new_presentation=...) is called
CopyCall ==
    /\ cpc = "c_idle"
    /\ cruns < MaxRuns
    /\ cruns' = cruns + 1
    /\ create_new' \in BOOLEAN
    /\ cpc' = "c_prepare"
    /\ eid' = None
    /\ sent' = {}
    /\ cresult' = None
    /\ cidx' = 1
    /\ UNCHANGED docs
    /\ UNCHANGED otherCopy

\* _prepare_presentation_id, slide_updater.py:253-313: the id itself, or the
\* id of a copy made by files().copy, whose failure is raised (a failure of
\* the metadata look-up is logged and the copy is made without parents)
CopyPrepare ==
    /\ cpc = "c_prepare"
    /\ IF ~create_new
       THEN /\ eid' = SourceId
            /\ cpc' = "c_connect"
            /\ UNCHANGED <<docs, sent, cresult>>
       ELSE /\ sent' = sent \cup {<<"copy", SourceId>>}
            /\ \E ok \in BOOLEAN :
                 IF ok
                 THEN /\ docs' = [d \in DOMAIN docs \cup {CopyIdSeq[cruns]} |->
                                    IF d \in DOMAIN docs THEN docs[d] ELSE docs[SourceId]]
                      /\ eid' = CopyIdSeq[cruns]
                      /\ cpc' = "c_connect"
                      /\ UNCHANGED cresult
                 ELSE CopyRaise("HttpError") /\ UNCHANGED <<docs, eid>>
    /\ UNCHANGED <<create_new, cidx, cruns>>
    /\ UNCHANGED otherCopy

\* slide_updater.py:607-617: the connectivity check on the id of the requests
CopyConnect ==
    /\ cpc = "c_connect"
    /\ sent' = sent \cup {<<"get", RequestId(SourceId, eid)>>}
    /\ \E ok \in BOOLEAN :
         IF ok THEN cpc' = "c_text" /\ UNCHANGED cresult
         ELSE CopyRaise("ConnectionError")
    /\ UNCHANGED <<docs, create_new, eid, cidx, cruns>>
    /\ UNCHANGED otherCopy

\* slide_updater.py:626-652 and 409-517: the loop ends with the link, or the
\* slide of the item is fetched and its text batchUpdate sent
CopyText ==
    /\ cpc = "c_text"
    /\ IF cidx > Len(SlideMap)
       THEN /\ cpc' = "c_idle"
            /\ cresult' = PresentationUrl(eid)
            /\ UNCHANGED <<docs, sent>>
       ELSE /\ sent' = sent \cup {<<"get", RequestId(SourceId, eid)>>,
                                  <<"batchUpdate", RequestId(SourceId, eid)>>}
            /\ \E ok \in BOOLEAN :
                 IF ok
                 THEN /\ docs' = [docs EXCEPT ![RequestId(SourceId, eid)] = @ + 1]
                      /\ cpc' = "c_audio"
                      /\ UNCHANGED cresult
                 ELSE CopyRaise("HttpError") /\ UNCHANGED docs
    /\ UNCHANGED <<create_new, eid, cidx, cruns>>
    /\ UNCHANGED otherCopy

\* slide_updater.py:524-582: the createVideo batchUpdate of an item with
\* add_audio, its failure swallowed; then the next item
CopyAudio ==
    /\ cpc = "c_audio"
    /\ IF SlideMap[cidx].add_audio
       THEN /\ sent' = sent \cup {<<"createVideo", RequestId(SourceId, eid)>>}
            /\ \E ok \in BOOLEAN :
                 docs' = IF ok THEN [docs EXCEPT ![RequestId(SourceId, eid)] = @ + 1] ELSE docs
       ELSE UNCHANGED <<docs, sent>>
    /\ cidx' = cidx + 1
    /\ cpc' = "c_text"
    /\ UNCHANGED <<create_new, eid, cresult, cruns>>
    /\ UNCHANGED otherCopy

\* ------------------------------------------------------------- specification
WorkerStep(r) ==
    \/ PipelineStart(r) \/ GenerateContent(r) \/ UpdateSlides(r)
    \/ WriteCompleted(r) \/ WriteUrl(r) \/ WriteEmail(r) \/ ReadJob(r)
    \/ DeliveryCheck(r) \/ SendEmail(r) \/ EmailFailure(r)
    \/ WriteError(r) \/ WriteErrorMessage(r) \/ PopGuard(r)

RequestStep(r) ==
    \/ Submit(r) \/ AcquirePipelineLock(r) \/ CheckGuard(r) \/ SetGuard(r)
    \/ AcquireJobsLock(r) \/ InsertJob(r) \/ WorkerStep(r)

PollNext == PollGet \/ PollStatus \/ PollUrl

Next == \E r \in Reqs : RequestStep(r)
Spec == Init /\ [][Next]_vars

NextPoll == \/ \E r \in 1..PollReqs : RequestStep(r)
            \/ PollNext
SpecPoll == Init /\ [][NextPoll]_vars

\* the orchestrator with requests of differing bodies
SpecDir == InitDir /\ [][Next]_vars

NextUpd == \/ UpdStart \/ UpdConnect \/ UpdSlide
           \/ UpdText \/ UpdUpload \/ UpdVideo
SpecUpd == InitUpd /\ [][NextUpd]_vars

NextGen == GenStart \/ GenBio \/ GenJsonSection \/ GenEnd
SpecGen == InitQuiet /\ [][NextGen]_vars

NextWrite == WriteCall
SpecWrite == InitQuiet /\ [][NextWrite]_vars

NextCopy == CopyCall \/ CopyPrepare \/ CopyConnect \/ CopyText \/ CopyAudio
SpecCopy == InitQuiet /\ [][NextCopy]_vars

NextFn == \/ CallResolvePositions \/ CallResolveContent \/ CallFieldMapper
          \/ CallSortShapes \/ FnReturn
SpecFn == InitQuiet /\ [][NextFn]_vars

\* ------------------------------------------------------------- properties
\* positions of a request between app.py:29 (guard taken) and app.py:45 (guard popped)
GuardedPcs == {"lock_jobs", "insert_job", "w_start", "w_generate", "w_update",
               "w_lock_done", "w_status", "w_url", "w_email", "w_read", "w_print",
               "w_send", "w_email_failed", "w_except", "w_err_status", "w_err_msg",
               "w_finally", "w_pop"}
InFlight(r) == pc[r] \in GuardedPcs

\* positions of a request whose job dict has been stored (app.py:33-37)
Inserted(r) == pc[r] \in (GuardedPcs \ {"lock_jobs", "insert_job"}) \cup {"done"}

\* positions after run_full_pipeline has returned or raised (app.py:43-45)
RunEndedPcs == {"w_finally", "w_pop"}

\* positions of the delivery step once the send has been attempted (pipeline.py:106-122)
DeliveryPcs == {"w_send", "w_email_failed"}

Terminal == {"completed", "error"}

\* no two stored jobs share a request_id so far
NoCollision == Cardinality(DOMAIN jobs) = Cardinality({r \in Reqs : Inserted(r)})

\* C1: of the submissions carrying one email, no two are in flight at the same
\* time, and a submission is rejected (409) only while another submission of
\* the same email is in flight: of two concurrent ones exactly one is accepted.
C1_OneRunPerIdentity ==
    [][ /\ \A r, q \in Reqs :
            (r # q /\ InFlight(r)' /\ InFlight(q)') => req'[r].email # req'[q].email
        /\ \A q \in Reqs :
            (pc[q] # "rejected" /\ pc'[q] = "rejected") =>
                \E r \in Reqs \ {q} : InFlight(r) /\ req[r].email = req[q].email
      ]_vars

\* two submissions of one email: one in flight, the other rejected
C1_Witness ==
    \E r, q \in Reqs : /\ r # q /\ InFlight(r) /\ pc[q] = "rejected"
                       /\ req[r].email = req[q].email

\* C2: a guard entry is held only while a run of that email is in flight: every
\* way the run ends (success, exception, early return) goes through the pop of
\* app.py:45, which leaves no entry of the run's email, so that a later
\* submission of that email is accepted.
C2_GuardReleased ==
    [][ /\ \A e \in pipeline_locks' : \E r \in Reqs : InFlight(r)' /\ req'[r].email = e
        /\ \A r \in Reqs : (pc[r] # "done" /\ pc'[r] = "done") =>
                              (pc[r] = "w_pop" /\ req[r].email \notin pipeline_locks')
      ]_vars

\* a run has ended and a later submission of the same email has been accepted
C2_Witness ==
    \E r, q \in Reqs : /\ r # q /\ pc[r] = "done" /\ InFlight(q)
                       /\ req[r].email = req[q].email

\* C3 (as stated): when run_full_pipeline has ended, the job of the run is
\* 'completed' or 'error', never still 'processing'.
C3_RunEndsTerminal ==
    \A r \in Reqs : pc[r] \in RunEndedPcs =>
        jobs[req[r].request_id].status \in Terminal

\* C4 (as stated): once the job of a run is 'completed' or 'error', no later
\* step of the run changes its status.
C4_TerminalStatus ==
    [][ \A r \in Reqs :
          ( /\ InFlight(r) /\ Inserted(r) /\ pc'[r] # pc[r]
            /\ jobs[req[r].request_id].status \in Terminal )
          => jobs'[req[r].request_id].status = jobs[req[r].request_id].status
      ]_vars

\* C5 (as stated): the job record a status poll observes is well formed: a
\* 'processing' one has no link, a 'completed' one has its link.
C5_WellFormedRecord ==
    /\ presp.status = "processing" => presp.slides_url = None
    /\ presp.status = "completed" => presp.slides_url # None

C7_FreshJobId == NoCollision

\* C8 (as stated): a thread about to read or write the job table holds jobs_lock.
C8_JobsLockHeld ==
    \A r \in Reqs : pc[r] \in {"insert_job", "w_status", "w_url", "w_email", "w_read",
                              "w_err_status", "w_err_msg"} => jobs_lock = r

\* C9 (as stated): two runs in flight for different emails have not sent
\* mutations to the same document id.
C9_DisjointTargets ==
    \A r, q \in Reqs :
        ( /\ r # q /\ InFlight(r) /\ InFlight(q)
          /\ req[r].email # req[q].email
          /\ target[r] # None /\ target[q] # None )
        => target[r] # target[q]
\* C10 (as stated): however often update_slides is run with the same audio
\* files and slide map, an audio file is uploaded at most once and a slide
\* holds at most one media element for it.
C10_NoReupload ==
    /\ \A f \in AudioNames : drive[f] <= 1
    /\ \A s \in DOMAIN slides : slides[s].videos <= 1
\* what the claim calls a stored artifact that exists and is valid, seen from
\* the file: the value a retry takes from the cache for the section.  A null
\* is no value; a string stored for a JSON section is a value only if it is
\* the JSON text of one, and the value is the parsed one; the bio is its text.
CacheValue(file, sec) ==
    LET stored == LoadJson(file)
    IN IF sec \in JsonSections /\ stored.t = "str"
       THEN (IF Loads(stored.v).ok THEN Loads(stored.v).value ELSE JNull)
       ELSE IF sec = "bio" /\ stored # JNull THEN EnsureText(stored)
       ELSE stored

\* the step of run_pipeline that produces section SectionSeq[gidx]
ProducesSection == gpc = "g_section" /\ gidx <= Len(SectionSeq) /\ gidx' = gidx + 1

\* C11 (as stated): when a section is produced and its file exists and holds
\* valid JSON, the LLM is not called for it and the bundle holds the stored value.
C11_ValidFileIsCacheHit ==
    [][ (ProducesSection /\ fs[Section] # None /\ Loads(fs[Section]).ok) =>
            (Section \notin called' /\ Get(base_context', Section) = Loads(fs[Section]).value)
      ]_vars

\* C11 (amended): when a section is produced and its file holds a cache value
\* (valid JSON other than null and, for a JSON section, no string that fails
\* to parse as JSON or parses to null), the LLM is not called for it and the
\* bundle holds that value, parsed if it was stored as a string.
C11_CacheHit ==
    [][ (ProducesSection /\ CacheValue(fs[Section], Section) # JNull) =>
            (Section \notin called' /\ Get(base_context', Section) = CacheValue(fs[Section], Section))
      ]_vars

\* a retry has produced a section from the file the earlier run wrote
C11_Witness ==
    /\ gruns = 2 /\ gidx > Len(SectionSeq) /\ called = {}
    /\ \A sec \in Sections : sec \in DOMAIN base_context
    /\ \E sec \in JsonSections : fs[sec] = "{k:a}" /\ base_context[sec] = JObj("a")

\* C12 (as stated): a call with the content of the previous call on the same
\* section writes nothing, and a call with another content writes the file.
C12_RoundTrip ==
    [][ ncalls' = ncalls + 1 =>
          LET sec == wcall'.section
          IN /\ wlast[sec] = wcall'.content => ~wcall'.wrote
             /\ (wlast[sec] # NoContent /\ wlast[sec] # wcall'.content) => wcall'.wrote
      ]_vars

\* ------------------------------------------------------------- slide layout
\* the last item before item k of map that declares label, 0 if there is none
DeclaredBefore(map, k, label) ==
    LET js == {j \in 1..(k - 1) : map[j].label = label}
    IN IF js = {} THEN 0 ELSE CHOOSE j \in js : \A i \in js : i <= j

\* every relative position names a label declared earlier in the list
ForwardOnly(map) ==
    \A k \in DOMAIN map :
        map[k].position.kind = "rel" => DeclaredBefore(map, k, map[k].position.base) # 0

\* the index the position of item k denotes: p - 1, or the index of its base plus the offset
RECURSIVE IndexOfItem(_, _)
IndexOfItem(map, k) ==
    IF map[k].position.kind = "abs" THEN map[k].position.n - 1
    ELSE IndexOfItem(map, DeclaredBefore(map, k, map[k].position.base)) + map[k].position.n

\* C13: resolve_positions gives every label of a forward-only slide-spec list
\* the index p - 1 of its absolute position p, or the index of its base plus
\* the offset; a list with a relative position whose base is not declared
\* earlier fails and has no layout.
C13_ResolvePositions ==
    fncall.fn = "resolve_positions" =>
        LET map == fncall.slide_map
            out == fncall.out
        IN IF ForwardOnly(map)
           THEN /\ out.ok
                /\ DOMAIN out.at = {map[k].label : k \in DOMAIN map}
                /\ \A l \in DOMAIN out.at :
                     out.at[l] = IndexOfItem(map, DeclaredBefore(map, Len(map) + 1, l))
           ELSE ~out.ok /\ out.at = <<>>

\* [A at 1, B at "A + 2"] has been resolved to {A: 0, B: 2}
C13_Witness ==
    /\ fncall.fn = "resolve_positions"
    /\ fncall.slide_map =
         << [label |-> <<"user", "input">>, position |-> [kind |-> "abs", base |-> <<>>, n |-> 1]],
            [label |-> <<"capability", "inform">>,
             position |-> [kind |-> "rel", base |-> <<"user", "input">>, n |-> 2]] >>
    /\ fncall.out.ok
    /\ fncall.out.at[<<"user", "input">>] = 0
    /\ fncall.out.at[<<"capability", "inform">>] = 2

\* C14 (as stated): a call that failed on the resolution of a position, the
\* unresolved base label or the index outside the document, has mutated no
\* slide: the document is the one the call began with.
C14_NoPartialUpdate ==
    (upc = "u_idle" /\ uresult \in {"KeyError", "IndexError"}) => slides = slides0

\* C15 (as stated): the text batchUpdate of a slide never ends the call; after
\* it, failed or not, the call goes on with the audio of the slide or with the
\* next item.
C15_TextFailureIsolated ==
    [][upc = "u_text" => upc' \in {"u_upload", "u_slide"}]_vars

\* ------------------------------------------------------------- field mapper
\* C16 (as stated): the requests computed again, with the same record, on the
\* text boxes the first requests left are empty.
C16_SecondPassEmpty ==
    fncall.fn = "field_mapper" => fncall.again = <<>>

\* the values that are empty or whitespace only
BlankTexts == {"", " "}

\* C17: for an entry of field_map whose value in the record is absent, empty
\* or whitespace only, no request names the text box of the entry and the
\* text of the box is the same after the requests are applied.
C17_BlankValueNoEdit ==
    fncall.fn = "field_mapper" =>
        \A k \in DOMAIN fncall.field_map :
            LET index == fncall.field_map[k][1]
                field == fncall.field_map[k][2]
            IN ( /\ index < Len(fncall.boxes)
                 /\ (field \notin DOMAIN fncall.jsondata \/ fncall.jsondata[field] \in BlankTexts) )
               => /\ \A q \in DOMAIN fncall.requests : fncall.requests[q].box # index + 1
                  /\ fncall.after[index + 1] = fncall.boxes[index + 1]

\* a whitespace-only value was mapped to a box holding text, and the box was left alone
C17_Witness ==
    /\ fncall.fn = "field_mapper"
    /\ fncall.boxes = <<"old">>
    /\ fncall.field_map = << <<0, "name">> >>
    /\ DOMAIN fncall.jsondata = {"name"}
    /\ fncall.jsondata["name"] = " "
    /\ fncall.requests = <<>>
    /\ fncall.after = <<"old">>

\* ------------------------------------------------------------- audio index
\* C18: while item number uidx of the slide map is updated, the counter is one
\* more than the number of items with add_audio among the first uidx items:
\* the k-th of them has the index k + 1, whatever its position.
C18_AudioIndex ==
    upc \in {"u_text", "u_upload", "u_video"} =>
        audio_counter = 1 + Cardinality({j \in 1..uidx : SlideMap[j].add_audio})

\* the second item with add_audio is uploaded under the index 3
C18_Witness ==
    /\ upc = "u_upload"
    /\ uidx = 3
    /\ Item.add_audio
    /\ AudioFile[3] = 3
    /\ SlideOf = 2

\* ------------------------------------------------------------- content source
\* texts that are equal without their case and the whitespace around them
Spellings == {{"inform", "Inform", "INFORM", " inform "}, {"create", "Create"},
              {"x"}, {"y"}, {"", " "}}
SameText(a, b) == \E c \in Spellings : a \in c /\ b \in c
RecordMatches(item, match) ==
    \A k \in DOMAIN match : SameText(IF k \in DOMAIN item THEN item[k] ELSE "", match[k])

\* C19: resolve_content gives the empty record for no source, the section of
\* the bundle or the empty record for a named source, and for a collection
\* with a filter the first record of the list all of whose filter fields equal
\* the filter values without case and surrounding whitespace, or the empty
\* record if there is none.
C19_ResolveContent ==
    fncall.fn = "resolve_content" =>
        LET src  == fncall.source_def
            cd   == fncall.content_dict
            list == IF src.collection \in DOMAIN cd THEN cd[src.collection] ELSE <<>>
            hits == {i \in DOMAIN list : RecordMatches(list[i], src.match)}
        IN CASE src.kind = "none"   -> fncall.out = <<>>
             [] src.kind = "name"   ->
                  fncall.out = IF src.name \in DOMAIN cd THEN cd[src.name] ELSE <<>>
             [] src.kind = "filter" ->
                  IF hits = {} THEN fncall.out = <<>>
                  ELSE \E i \in hits : (\A j \in hits : i <= j) /\ fncall.out = list[i]

\* the filter Inform skipped a Create record and returned the record INFORM
C19_Witness ==
    /\ fncall.fn = "resolve_content"
    /\ fncall.source_def = Filtered("uses", [capability |-> "Inform"])
    /\ "uses" \in DOMAIN fncall.content_dict
    /\ fncall.content_dict["uses"] = << [capability |-> "Create", name |-> "x"],
                                        [capability |-> "INFORM", name |-> "y"] >>
    /\ fncall.out = [capability |-> "INFORM", name |-> "y"]

\* C20 (as stated): a call in which an upload failed with storageQuotaExceeded
\* ends in an exception, so that the job is set to 'error'.
C20_QuotaFailureIsError ==
    (upc = "u_idle" /\ quota_failed) => StatusAfter(uresult) = "error"

\* ------------------------------------------------------------- status poll
\* C21: a step of get_status (one that moves the handler or sets its locals
\* or its answer) changes neither the job table nor the identity
\* guard; for an id that is not in the table it answers not_found, and for an
\* id that is in it the answer holds the status and the link read from the
\* record of that job and is never not_found.
C21_PollFrame ==
    [][ <<ppc, pref, pst, presp>>' # <<ppc, pref, pst, presp>> =>
          /\ jobs' = jobs
          /\ pipeline_locks' = pipeline_locks
          /\ ppc = "idle" =>
                IF pref' \in DOMAIN jobs
                THEN ppc' = "p_status" /\ pjob'.live
                ELSE ppc' = "idle" /\ presp'.status = "not_found" /\ presp'.slides_url = None
          /\ ppc = "p_status" => pst' = PollJob.status
          /\ ppc = "p_url" =>
                /\ presp'.status = pst
                /\ presp'.status \in {"processing", "completed", "error"}
                /\ presp'.slides_url = PollJob.slides_url ]_vars

\* a poll of a finished job answered completed with the link of the job, and
\* a request is still recorded in the table and the guard
C21_Witness ==
    /\ ppc = "idle"
    /\ presp.status = "completed"
    /\ \E id \in DOMAIN jobs : jobs[id].status = "completed" /\ presp.slides_url = jobs[id].slides_url
    /\ presp.slides_url # None

\* ------------------------------------------------------------- edit shapes
\* the requests of reqs that name text box b
Edits(reqs, b) == {i \in DOMAIN reqs : reqs[i].box = b}
\* box b gets a deleteText and, right after it, the insertText of text, and nothing else
ClearThenInsert(reqs, b, text) ==
    \E i \in DOMAIN reqs :
        /\ Edits(reqs, b) = {i, i + 1}
        /\ i + 1 \in DOMAIN reqs
        /\ reqs[i].op = "deleteText"
        /\ reqs[i + 1].op = "insertText" /\ reqs[i + 1].text = text
\* box b gets the insertText of text and nothing else
InsertOnly(reqs, b, text) ==
    \E i \in DOMAIN reqs :
        Edits(reqs, b) = {i} /\ reqs[i].op = "insertText" /\ reqs[i].text = text
\* a value without the whitespace around it
Trimmed(v) == IF v = " story " THEN "story" ELSE v
\* the entries of the field map of the call that have a box and a value to put in it
Replacing == {k \in DOMAIN fncall.field_map :
                 /\ fncall.field_map[k][1] < Len(fncall.boxes)
                 /\ fncall.field_map[k][2] \in DOMAIN fncall.jsondata
                 /\ fncall.jsondata[fncall.field_map[k][2]] \notin BlankTexts}

\* C22 (as stated): an entry with a non-empty trimmed value gets deleteText
\* then insertText when the text of its box is not empty, and insertText alone
\* when it is empty.
C22_ClearWhenNonEmpty ==
    fncall.fn = "field_mapper" =>
        \A k \in Replacing :
            LET b    == fncall.field_map[k][1] + 1
                text == Trimmed(fncall.jsondata[fncall.field_map[k][2]])
            IN IF fncall.boxes[b] # ""
               THEN ClearThenInsert(fncall.requests, b, text)
               ELSE InsertOnly(fncall.requests, b, text)

\* C22 (amended): the box is cleared first when its text holds a character
\* that is not whitespace; a box whose text is empty or whitespace only gets
\* the insertText alone.
C22_ClearWhenText ==
    fncall.fn = "field_mapper" =>
        \A k \in Replacing :
            LET b    == fncall.field_map[k][1] + 1
                text == Trimmed(fncall.jsondata[fncall.field_map[k][2]])
            IN IF fncall.boxes[b] \notin BlankTexts
               THEN ClearThenInsert(fncall.requests, b, text)
               ELSE InsertOnly(fncall.requests, b, text)

\* a box with text was cleared and filled, a whitespace-only box was filled
C22_Witness ==
    /\ fncall.fn = "field_mapper"
    /\ fncall.boxes = <<"old", " ">>
    /\ fncall.field_map = << <<0, "name">>, <<1, "narrative">> >>
    /\ Replacing = {1, 2}
    /\ fncall.requests = << [op |-> "deleteText", box |-> 1, text |-> ""],
                            [op |-> "insertText", box |-> 1, text |-> "ann"],
                            [op |-> "insertText", box |-> 2, text |-> "story"] >>

\* ------------------------------------------------------------- missing audio
\* C23: when the text batch of a slide with add_audio went through and the
\* audio file of the slide does not exist, the text boxes of the slide are
\* the ones the requests give, nothing is uploaded, no video element is
\* added, and the call is at the next item; an upload or a createVideo is
\* only ever under way for a file that exists.
C23_MissingAudioSkipsOnlyAudio ==
    [][ /\ ( /\ upc = "u_text" /\ upc' # "u_idle"
             /\ Item.add_audio /\ AudioFile \notin files )
           => /\ slides'[SlideOf + 1].boxes = ApplyRequests(slides[SlideOf + 1].boxes, requests)
              /\ \A s \in DOMAIN slides : slides'[s].videos = slides[s].videos
              /\ drive' = drive
              /\ upc' = "u_slide" /\ uidx' = uidx + 1
              /\ uresult' = uresult
        /\ upc \in {"u_upload", "u_video"} => AudioFile \in files ]_vars

\* the third slide got its text, its audio file is missing, nothing was
\* uploaded or inserted, and the call has gone on
C23_Witness ==
    /\ runs = 1
    /\ upc = "u_slide" /\ uidx = 4
    /\ AudioFilename(InferAudioPrefix(ContentDict), 3, SlideMap[3].label) \notin files
    /\ Len(slides) = 3
    /\ slides0[3].boxes = <<"placeholder">>
    /\ slides[3] = [boxes |-> <<"story">>, videos |-> 0]
    /\ \A f \in AudioNames : drive[f] = 0

\* ------------------------------------------------------------- fetch first
\* C24: the loop over the slides, a text batchUpdate, an upload or a
\* createVideo is only under way, and the document or Drive only changes, in
\* a call whose connectivity check has succeeded; a check that fails ends the
\* call with its error.
C24_FetchBeforeMutation ==
    [][ /\ upc \in {"u_slide", "u_text", "u_upload", "u_video"} => reachable
        /\ (slides' # slides \/ drive' # drive) => reachable
        /\ (upc = "u_connect" /\ ~reachable') =>
              /\ upc' = "u_idle" /\ uresult' = "ConnectionError"
              /\ slides' = slides /\ drive' = drive ]_vars

\* the check of the second call failed: the call has ended with the error and
\* the document and Drive are as the first call left them
C24_Witness ==
    /\ runs = 2
    /\ upc = "u_idle"
    /\ uresult = "ConnectionError"
    /\ ~reachable
    /\ slides = slides0
    /\ \E f \in AudioNames : drive[f] = 1

\* ------------------------------------------------------------- region order
\* the row of a top coordinate: the multiple of 10 it is rounded to
RowOf(top) == CASE top = 95 -> 100 [] top = 98 -> 100 [] top = 100 -> 100
                [] top = 105 -> 100 [] top = 106 -> 110 [] OTHER -> top
\* region a comes before region b by row, then by left
Before(a, b) == RowOf(a.top) < RowOf(b.top) \/ (RowOf(a.top) = RowOf(b.top) /\ a.left < b.left)

\* C25: the sorted text boxes are the collected ones, each once, in the order
\* of (row, left), boxes of equal key in the order they were collected in; and
\* index i of a field_map addresses the i-th box of that order.
C25_RegionOrder ==
    fncall.fn = "sort_shapes" =>
        LET in  == fncall.text_shapes
            out == fncall.sorted
        IN /\ Len(out) = Len(in)
           /\ \A x \in DOMAIN in : \E y \in DOMAIN out : out[y] = in[x]
           /\ \A i, j \in DOMAIN out :
                i < j => /\ ~Before(out[j], out[i])
                         /\ ~Before(out[i], out[j]) => out[i].objectId < out[j].objectId
           /\ \A i \in DOMAIN fncall.addressed : fncall.addressed[i] = out[i + 1].objectId

\* boxes collected at (top 100, left 50) and (top 98, left 10): the second is first
C25_Witness ==
    /\ fncall.fn = "sort_shapes"
    /\ Len(fncall.text_shapes) = 2
    /\ fncall.text_shapes[1] = [objectId |-> 1, top |-> 100, left |-> 50]
    /\ fncall.text_shapes[2] = [objectId |-> 2, top |-> 98, left |-> 10]
    /\ fncall.sorted[1].objectId = 2
    /\ fncall.addressed[0] = 2

\* ------------------------------------------------------------- missing box
\* the field map without its entry k
WithoutEntry(field_map, k) ==
    [i \in 1..(Len(field_map) - 1) |-> IF i < k THEN field_map[i] ELSE field_map[i + 1]]

\* C26: for an entry of field_map whose index is not below the number of
\* boxes, the requests are computed all the same, none of them names a box
\* the slide does not have, they are the requests of the field map without
\* the entry, and every other entry with a box and a value has its requests.
C26_MissingBoxSkipped ==
    fncall.fn = "field_mapper" =>
        \A k \in DOMAIN fncall.field_map :
            fncall.field_map[k][1] >= Len(fncall.boxes) =>
                /\ \A q \in DOMAIN fncall.requests : fncall.requests[q].box \in DOMAIN fncall.boxes
                /\ fncall.requests =
                      TextRequests(fncall.boxes, WithoutEntry(fncall.field_map, k), fncall.jsondata, 1)
                /\ \A j \in Replacing : Edits(fncall.requests, fncall.field_map[j][1] + 1) # {}

\* index 1 has no box on a slide with one box: only the box of index 0 is edited
C26_Witness ==
    /\ fncall.fn = "field_mapper"
    /\ fncall.boxes = <<"old">>
    /\ fncall.field_map = << <<1, "narrative">>, <<0, "name">> >>
    /\ DOMAIN fncall.jsondata = {"name", "narrative"}
    /\ fncall.jsondata["narrative"] = " story "
    /\ fncall.jsondata["name"] = "ann"
    /\ fncall.requests = << [op |-> "deleteText", box |-> 1, text |-> ""],
                            [op |-> "insertText", box |-> 1, text |-> "ann"] >>

\* ------------------------------------------------------------- fresh copy
\* C27: in a call with create_new_presentation, a document is added to Drive
\* only by the prepare step, before any other request of the call; every
\* other request of the call names the id of the copy; the document the call
\* was given never changes; the link returned names the copy; and a call
\* whose copy failed has sent nothing else and changed no document.
C27_FreshCopy ==
    [][ create_new =>
          /\ DOMAIN docs' # DOMAIN docs => (cpc = "c_prepare" /\ sent = {})
          /\ create_new' => docs'[SourceId] = docs[SourceId]
          /\ \A q \in sent' : q[1] # "copy" => (eid' \notin {None, SourceId} /\ q[2] = eid')
          /\ (cpc' = "c_idle" /\ cresult' \notin Errors /\ create_new') =>
                (eid' # SourceId /\ cresult' = PresentationUrl(eid'))
          /\ (cpc = "c_prepare" /\ cpc' = "c_idle") =>
                (cresult' \in Errors /\ docs' = docs /\ sent' = {<<"copy", SourceId>>}) ]_vars

\* a call with create_new_presentation returned the link of its copy, the
\* copy has taken mutations and the source none
C27_Witness ==
    /\ cpc = "c_idle"
    /\ create_new
    /\ cruns = 1
    /\ eid = CopyIdSeq[1]
    /\ cresult = PresentationUrl(CopyIdSeq[1])
    /\ docs[CopyIdSeq[1]] > 0
    /\ docs[SourceId] = 0
    /\ <<"createVideo", CopyIdSeq[1]>> \in sent

\* ------------------------------------------------------------- guard and status
\* C28 (as stated): while the guard of an email is held by a run whose job has
\* been stored, that job is 'processing'.
C28_GuardMeansProcessing ==
    \A r \in Reqs :
        (InFlight(r) /\ Inserted(r) /\ req[r].email \in pipeline_locks)
            => jobs[req[r].request_id].status = "processing"

\* ------------------------------------------------------------- run folders
\* C29 (as stated): two runs in flight at the same time never work in the
\* same folder.
C29_NoSharedFolder ==
    \A r, q \in Reqs :
        (r # q /\ InFlight(r) /\ InFlight(q))
            => {base_path[r], output_dir[r]} \cap {base_path[q], output_dir[q]} \subseteq {None}

\* ------------------------------------------------------------- audio attempted
\* C30 (as stated): a slide with add_audio whose audio file exists gets its
\* upload attempted whenever the slide was fetched and no request failed:
\* from the slide the call goes on to its text step, also when the slide has
\* no text box, and from the text step to the upload, also when there was no
\* text edit to send.
C30_AudioAlwaysAttempted ==
    [][ /\ ( /\ upc = "u_slide" /\ uidx <= Len(SlideMap) /\ upc' # "u_idle"
             /\ Item.add_audio
             /\ AudioFilename(InferAudioPrefix(ContentDict), audio_counter', Item.label) \in files )
           => upc' = "u_text"
        /\ ( /\ upc = "u_text" /\ upc' # "u_idle"
             /\ Item.add_audio /\ AudioFile \in files )
           => upc' = "u_upload" ]_vars
====
